---- MODULE Spec2Model ----
\* LP-based inverse reinforcement learning (src/unnamed/part_000): the dynamics
\* simulator, the trajectory generator, the value estimator, the weight-recovery
\* LP and the iterative driver.
\*
\* Numbers are exact integers in fixed units:
\*   a state s is written 2*s            (One = 2 is the state 1, noise is -1..1),
\*   a weight alpha_i is written 20*alpha_i  (AlphaOne = 20 is the weight 1),
\*   a discount is written 10*discount   (DiscDen = 10),
\*   a Gaussian density is rounded to the nearest integer on the state grid.
EXTENDS Integers, Sequences, FiniteSets

VARIABLES
    \* lp_irl_sample_trajectories
    pc, iters, max_iter, alpha, value_functions, value_pi_star, pi_current,
    solver_arg, lp_success, returned,
    \* monte_carlo_sim / step / calc_value_function_estimate, called on their own
    sim_pc, policy, n_trajectories, trajectory_length, trajectories,
    s, raw, s_next, discount, n_basis, values,
    \* solve_lp_for_alphas, called on its own
    lp_pc, lp_list, lp_out

driverVars == <<pc, iters, max_iter, alpha, value_functions, value_pi_star,
                pi_current, solver_arg, lp_success, returned>>
simVars == <<sim_pc, policy, n_trajectories, trajectory_length, trajectories,
             s, raw, s_next, discount, n_basis, values>>
lpVars == <<lp_pc, lp_list, lp_out>>
vars == <<driverVars, simVars, lpVars>>

----------------------------------------------------------------------------
\* Bounds of the model.

\* largest max_iter of a driver run
MaxIter == 6
\* largest n_trajectories of a monte_carlo_sim call
MaxTraj == 2
\* largest trajectory_length of a monte_carlo_sim call
MaxLen == 2
\* largest number of candidate estimates in a solver call made on its own
MaxHist == 2

----------------------------------------------------------------------------
\* Units and program constants.

\* the state 1 (truncate_state's bound), in half units
One == 2
\* the weight 1 (linprog's upper bound and b_ub), in twentieths
AlphaOne == 20
\* denominator of a discount: discount = d / DiscDen
DiscDen == 10
\* norm.pdf(m, loc=m, scale=2/22) = 4.39, rounded
PhiPeak == 4
\* "i >= 4": the 0-indexed iteration from which convergence is tested
MinIterIndex == 4
\* n_basis of a driver run (the code's default is 21)
NBasis == 2
\* discount of a driver run: 0.9
DriverDiscount == 9
\* the batch a driver iteration simulates (the code's is 20 x 20)
DriverTrajectories == 1
DriverLength == 1
\* the expert batch a run is given (the code's is 20 x 100)
ExpertTrajectories == 2
ExpertLength == 1

\* the convergence threshold 0.1, in twentieths
Threshold == AlphaOne \div 10

\* States on the grid -1, -1/2, 0, 1/2, 1.
States == (-One)..One
\* uniform(-1, 1): the initial states drawn
InitialStates == {-One, 0, One}
\* uniform(-0.5, 0.5): -1/2, 0, 1/2
Noise == {-1, 0, 1}
\* discounts 0, 0.5, 0.9, 1
Discounts == {0, 5, 9, DiscDen}
\* n_basis of an estimator call: the sizes whose means lie on the state grid
BasisSizes == {0, 1, 2, 3}

----------------------------------------------------------------------------
\* Vectors (numpy arrays) as sequences.

Last(q) == q[Len(q)]

Zeros(n) == [j \in 1..n |-> 0]

VecSub(a, b) == [j \in 1..Len(a) |-> a[j] - b[j]]

VecAdd(a, b) == [j \in 1..Len(a) |-> a[j] + b[j]]

VecNeg(a) == [j \in 1..Len(a) |-> -a[j]]

Abs(x) == IF x < 0 THEN -x ELSE x

RECURSIVE SeqSum(_)
SeqSum(q) == IF q = <<>> THEN 0 ELSE q[1] + SeqSum(Tail(q))

Dot(a, b) == SeqSum([j \in 1..Len(a) |-> a[j] * b[j]])

RECURSIVE Pow(_, _)
Pow(b, e) == IF e <= 0 THEN 1 ELSE b * Pow(b, e - 1)

RECURSIVE Factorial(_)
Factorial(n) == IF n <= 1 THEN 1 ELSE n * Factorial(n - 1)

\* np.max(np.abs(a - b))
MaxAbsDiff(a, b) ==
    LET D == {Abs(a[j] - b[j]) : j \in 1..Len(a)}
    IN  IF D = {} THEN 0 ELSE CHOOSE m \in D : \A d \in D : d <= m

----------------------------------------------------------------------------
\* Basis set and reward model.

\* np.linspace(-1, 1, n)[j-1], in state units; exact for n in BasisSizes
Mean(n, j) == IF n = 1 THEN -One ELSE -One + (2 * One * (j - 1)) \div (n - 1)

\* norm.pdf(x, loc=m, scale=2/22) on the state grid: 4.39 at the mean and
\* below 1e-5 half a unit or more away from it
norm_pdf(x, m) == IF x = m THEN PhiPeak ELSE 0

\* AlphaOne * sum(alpha_i * phi_i(x))
reward_function(x, a, n) ==
    SeqSum([j \in 1..n |-> a[j] * norm_pdf(x, Mean(n, j))])

----------------------------------------------------------------------------
\* Policies.  A policy is a record naming the rule and what it captured.

ExpertPolicy == [kind |-> "pi_star"]

RandomPolicy(shape, inflection) ==
    [kind |-> "random", shape |-> shape, inflection |-> inflection]

GreedyPolicy(a) == [kind |-> "pi_updated", alpha |-> a]

\* a test policy with a fixed output of any magnitude
ConstPolicy(c) == [kind |-> "const", out |-> c]

pi_star(x) == IF x < 0 THEN 1 ELSE -1

\* reward_function(s, alpha) > 0.5
pi_updated(x, a) ==
    IF 2 * reward_function(x, a, Len(a)) > AlphaOne THEN 1 ELSE -1

Apply(p, x) ==
    CASE p.kind = "pi_star" -> pi_star(x)
      [] p.kind = "random" -> IF x < p.inflection THEN -p.shape ELSE p.shape
      [] p.kind = "pi_updated" -> pi_updated(x, p.alpha)
      [] OTHER -> p.out

\* construct_random_policy: np.linspace(-1, 1, 21) on the state grid
construct_random_policy ==
    {RandomPolicy(shape, inflection) : shape \in {-1, 1}, inflection \in {-One, 0, One}}

----------------------------------------------------------------------------
\* Dynamics simulator and trajectory generator.

\* truncate_state without its lower branch
TruncateUpperOnly(x) == IF x > One THEN One ELSE x

truncate_state(x) ==
    IF x > One THEN One
    ELSE IF x < -One THEN -One
    ELSE x

\* policy(s)*s + noise, for one noise draw
RawNext(x, p, noise) == Apply(p, x) * x + noise

\* step(s, policy), for one noise draw
StepWith(x, p, noise) == truncate_state(RawNext(x, p, noise))

\* step(s, policy): one outcome per noise draw
step(x, p) == {StepWith(x, p, noise) : noise \in Noise}

\* the inner loop: k more steps appended to traj
RECURSIVE Extend(_, _, _)
Extend(traj, p, k) ==
    IF k <= 0 THEN {traj}
    ELSE UNION {Extend(Append(traj, x), p, k - 1) : x \in step(Last(traj), p)}

\* one pass of the outer loop: every trajectory it can build
Trajectory(p, len) == UNION {Extend(<<s0>>, p, len - 1) : s0 \in InitialStates}

\* monte_carlo_sim(policy, n_trajectories, trajectory_length): its outcomes
monte_carlo_sim(p, n, len) == [1..n -> Trajectory(p, len)]

----------------------------------------------------------------------------
\* Value estimator.  An estimate is written times DiscDen^MaxLen * MaxTraj!,
\* which keeps every discount power and every mean an exact integer.

\* T = len(trajectories[0]) if len(trajectories) > 0 else 0
TrajLength(batch) == IF Len(batch) > 0 THEN Len(batch[1]) ELSE 0

\* discount**t
DiscountPower(d, t) == Pow(d, t) * Pow(DiscDen, MaxLen - t)

\* discounts = np.array([discount**t for t in range(T)])
DiscountVector(d, T) == [t \in 1..T |-> DiscountPower(d, t - 1)]

\* np.sum(norm.pdf(traj, loc=m, scale=sd) * discounts)
TrajReturn(traj, m, discounts) ==
    SeqSum([t \in 1..Len(discounts) |-> norm_pdf(traj[t], m) * discounts[t]])

\* np.mean(traj_returns) without the guard: the mean of an empty list is nan,
\* written -1 (no estimate is negative)
MeanUnguarded(traj_returns) ==
    IF Len(traj_returns) > 0
    THEN SeqSum(traj_returns) * (Factorial(MaxTraj) \div Len(traj_returns))
    ELSE -1

\* np.mean(traj_returns) if len(traj_returns) > 0 else 0.0
MeanOrZero(traj_returns) ==
    IF Len(traj_returns) > 0
    THEN SeqSum(traj_returns) * (Factorial(MaxTraj) \div Len(traj_returns))
    ELSE 0

calc_value_function_estimate(batch, d, n) ==
    LET discounts == DiscountVector(d, TrajLength(batch))
    IN  [j \in 1..n |->
            MeanOrZero([k \in 1..Len(batch) |->
                            TrajReturn(batch[k], Mean(n, j), discounts)])]

----------------------------------------------------------------------------
\* Weight-recovery solver.

\* the points the LP backend may return, as weights: -1, 0, 0.05, 0.1, 1, 2
LPGrid == {-AlphaOne, 0, 1, 2, AlphaOne, 2 * AlphaOne}

\* bounds=(-1, 1)
LpBoundsSigned == <<-AlphaOne, AlphaOne>>

\* bounds=(0, 1)
LpBounds == <<0, AlphaOne>>

\* A_ub = np.eye(n), b_ub = np.ones(n)
LpAub(n) == [r \in 1..n |-> [j \in 1..n |-> IF r = j THEN 1 ELSE 0]]

LpBub(n) == [r \in 1..n |-> AlphaOne]

\* coordinate j's values satisfying row j of A_ub x <= b_ub and the bounds
\* (A_ub is diagonal, so the LP separates by coordinate)
CoordFeasible(j, A_ub, b_ub, bounds) ==
    {v \in LPGrid : /\ A_ub[j][j] * v <= b_ub[j]
                    /\ bounds[1] <= v
                    /\ v <= bounds[2]}

\* the values of a coordinate that minimise its term cj * v
CoordMinimisers(cj, F) == {v \in F : \A w \in F : cj * v <= cj * w}

\* the minimisers of c.x over the first n coordinates: the LP separates, so
\* they are the points each of whose coordinates minimises its own term
RECURSIVE Minimisers(_, _, _, _, _)
Minimisers(c, A_ub, b_ub, bounds, n) ==
    IF n = 0 THEN {<<>>}
    ELSE {Append(x, v) :
            x \in Minimisers(c, A_ub, b_ub, bounds, n - 1),
            v \in UNION {CoordMinimisers(c[n], F) :
                            F \in {CoordFeasible(n, A_ub, b_ub, bounds)}}}

\* scipy.optimize.linprog(c, A_ub, b_ub, bounds): the backend either reports
\* failure or returns a minimiser of c.x over the feasible set
linprog(c, A_ub, b_ub, bounds) ==
    {[success |-> FALSE, x |-> <<>>]} \cup
    {[success |-> TRUE, x |-> x] : x \in Minimisers(c, A_ub, b_ub, bounds, Len(c))}

\* component i of total_diff after the passes j = 0 .. m-1 of
\* "total_diff += (V_pi_star - list_of_other_values[j])"
RECURSIVE SumDiff(_, _, _)
SumDiff(list, i, m) ==
    IF m <= 0 THEN 0
    ELSE SumDiff(list, i, m - 1) + (Last(list)[i] - list[m][i])

\* total_diff after the loop over j in range(len(list_of_other_values) - 1)
TotalDiff(list, m) == [i \in 1..Len(Last(list)) |-> SumDiff(list, i, m)]

\* c = total_diff: the negation forgotten
ObjectiveNotNegated(total_diff) == total_diff

\* c = -total_diff
Objective(total_diff) == VecNeg(total_diff)

\* "return res.x" without looking at res.success
SolverOutcomeUnchecked(res) == [raised |-> FALSE, x |-> res.x, success |-> res.success]

\* "if res.success: return res.x else: raise ValueError"
SolverOutcome(res) == [raised |-> ~res.success, x |-> res.x, success |-> res.success]

\* solve_lp_for_alphas(value_pi_star, list_of_other_values): its outcomes
solve_lp_for_alphas(v_star, list) ==
    UNION {{SolverOutcome(res) : res \in linprog(c, A_ub, b_ub, LpBounds)} :
              c \in {Objective(TotalDiff(list, Len(list) - 1))},
              A_ub \in {LpAub(Len(Last(list)))},
              b_ub \in {LpBub(Len(Last(list)))}}

----------------------------------------------------------------------------
\* lp_irl_sample_trajectories.

NoReturn == [kind |-> "none", alpha |-> <<>>, value_functions |-> <<>>]

Raise == [kind |-> "raise", alpha |-> <<>>, value_functions |-> <<>>]

Return(a, vf) == [kind |-> "return", alpha |-> a, value_functions |-> vf]

\* value_functions = value_functions + [value_pi_current]
AppendLast(v, vf) == vf \o <<v>>

\* value_functions = [value_pi_current] + value_functions
Prepend(v, vf) == <<v>> \o vf

\* the test without "i >= 4"
ConvergedNoMinIter(i, alpha_next, a) == MaxAbsDiff(alpha_next, a) < Threshold

\* i >= 4 and np.max(np.abs(alpha_next - alpha)) < 0.1
Converged(i, alpha_next, a) ==
    i >= MinIterIndex /\ MaxAbsDiff(alpha_next, a) < Threshold

\* "return alpha, value_functions" inside the loop
StaleReturn(alpha_next, a, vf) == Return(a, vf)

\* "return alpha_next, value_functions" inside the loop
ConvergedReturn(alpha_next, a, vf) == Return(alpha_next, vf)

\* "return alpha, value_functions" after the loop
ExhaustedReturn(a, vf) == Return(a, vf)

\* range(max_iter + 1)
LoopRunsInclusive(i, m) == i <= m

\* for i in range(max_iter): whether iteration i runs
LoopRuns(i, m) == i < m

\* the expert batches a run is given: monte_carlo_sim under pi_star
ExpertData == monte_carlo_sim(ExpertPolicy, ExpertTrajectories, ExpertLength)

SimIdle ==
    /\ sim_pc = "idle" /\ policy = ExpertPolicy
    /\ n_trajectories = 0 /\ trajectory_length = 0 /\ trajectories = <<>>
    /\ s = 0 /\ raw = 0 /\ s_next = 0
    /\ discount = 0 /\ n_basis = 0 /\ values = <<>>

LpIdle == lp_pc = "idle" /\ lp_list = <<>> /\ lp_out = SolverOutcome([success |-> FALSE, x |-> <<>>])

DriverIdle ==
    /\ pc = "idle" /\ iters = 0 /\ max_iter = 0 /\ alpha = <<>>
    /\ value_functions = <<>> /\ value_pi_star = <<>>
    /\ pi_current = ExpertPolicy /\ solver_arg = <<>> /\ lp_success = TRUE
    /\ returned = NoReturn

\* the state when the loop is first reached
Init ==
    /\ max_iter \in 0..MaxIter
    /\ \E data \in ExpertData :
          value_pi_star = calc_value_function_estimate(data, DriverDiscount, NBasis)
    /\ value_functions = <<value_pi_star>>
    /\ alpha = Zeros(NBasis)
    /\ pi_current \in construct_random_policy
    /\ pc = "iterating"
    /\ iters = 0
    /\ solver_arg = <<>>
    /\ lp_success = TRUE
    /\ returned = NoReturn
    /\ SimIdle
    /\ LpIdle

\* one pass of the loop body
Iterate ==
    /\ pc = "iterating"
    /\ LoopRuns(iters, max_iter)
    /\ \E traj \in monte_carlo_sim(pi_current, DriverTrajectories, DriverLength),
          i \in {iters} :
        \E value_pi_current \in {calc_value_function_estimate(traj, DriverDiscount, NBasis)} :
        \E vf \in {Prepend(value_pi_current, value_functions)} :
          /\ value_functions' = vf
          /\ solver_arg' = vf
          /\ iters' = i + 1
          /\ \E out \in solve_lp_for_alphas(Last(vf), vf) :
                /\ lp_success' = out.success
                /\ IF out.raised
                   THEN /\ pc' = "failed"
                        /\ returned' = Raise
                        /\ UNCHANGED <<alpha, pi_current>>
                   ELSE IF Converged(i, out.x, alpha)
                   THEN /\ pc' = "converged"
                        /\ returned' = ConvergedReturn(out.x, alpha, vf)
                        /\ UNCHANGED <<alpha, pi_current>>
                   ELSE /\ pc' = "iterating"
                        /\ alpha' = out.x
                        /\ pi_current' = GreedyPolicy(out.x)
                        /\ UNCHANGED returned
    /\ UNCHANGED <<max_iter, value_pi_star>>
    /\ UNCHANGED <<simVars, lpVars>>

\* the loop ends without a return: "return alpha, value_functions"
Exhaust ==
    /\ pc = "iterating"
    /\ ~LoopRuns(iters, max_iter)
    /\ pc' = "exhausted"
    /\ returned' = ExhaustedReturn(alpha, value_functions)
    /\ UNCHANGED <<iters, max_iter, alpha, value_functions, value_pi_star,
                   pi_current, solver_arg, lp_success>>
    /\ UNCHANGED <<simVars, lpVars>>

Next == Iterate \/ Exhaust

Spec == Init /\ [][Next]_vars

\* the loop is sequential code: a run keeps executing until it returns or raises
FairSpec == Spec /\ WF_vars(Next)

----------------------------------------------------------------------------
\* The simulator, the trajectory generator and the value estimator, each
\* called on its own with inputs drawn from small sets.

\* the policies of a call: the expert, a random threshold policy, a
\* reward-greedy policy and two test policies with outputs of large magnitude
TestPolicies ==
    {ExpertPolicy, RandomPolicy(1, 0), GreedyPolicy(<<AlphaOne, 0>>),
     ConstPolicy(5), ConstPolicy(-5)}

SimInit ==
    /\ sim_pc = "start" /\ policy = ExpertPolicy
    /\ n_trajectories = 0 /\ trajectory_length = 0 /\ trajectories = <<>>
    /\ s = 0 /\ raw = 0 /\ s_next = 0
    /\ discount = 0 /\ n_basis = 0 /\ values = <<>>
    /\ DriverIdle
    /\ LpIdle

\* s_next = step(s, policy)
StepCall ==
    /\ sim_pc = "start"
    /\ \E x \in States, p \in TestPolicies, noise \in Noise :
          /\ s' = x
          /\ policy' = p
          /\ raw' = RawNext(x, p, noise)
          /\ s_next' = StepWith(x, p, noise)
    /\ sim_pc' = "stepped"
    /\ UNCHANGED <<n_trajectories, trajectory_length, trajectories,
                   discount, n_basis, values>>
    /\ UNCHANGED <<driverVars, lpVars>>

\* trajectories = monte_carlo_sim(policy, n_trajectories, trajectory_length)
SimCall ==
    /\ sim_pc = "start"
    /\ \E p \in TestPolicies, n \in 0..MaxTraj, len \in 0..MaxLen :
          /\ policy' = p
          /\ n_trajectories' = n
          /\ trajectory_length' = len
          /\ trajectories' \in monte_carlo_sim(p, n, len)
    /\ sim_pc' = "simulated"
    /\ UNCHANGED <<s, raw, s_next, discount, n_basis, values>>
    /\ UNCHANGED <<driverVars, lpVars>>

\* values = calc_value_function_estimate(trajectories, discount, n_basis)
EstimateCall ==
    /\ sim_pc = "simulated"
    /\ \E d \in Discounts, n \in BasisSizes :
          /\ discount' = d
          /\ n_basis' = n
          /\ values' = calc_value_function_estimate(trajectories, d, n)
    /\ sim_pc' = "estimated"
    /\ UNCHANGED <<policy, n_trajectories, trajectory_length, trajectories,
                   s, raw, s_next>>
    /\ UNCHANGED <<driverVars, lpVars>>

SimNext == StepCall \/ SimCall \/ EstimateCall

SpecSim == SimInit /\ [][SimNext]_vars

----------------------------------------------------------------------------
\* solve_lp_for_alphas called on its own.

\* the components of an estimate
LPValues == {1, 2, 3}

\* expert [3, 2, 1] with the one candidate [1, 1, 1]
Scenario1 == << <<1, 1, 1>>, <<3, 2, 1>> >>

\* value histories: up to MaxHist candidates, then the expert estimate
Histories ==
    UNION {[1..k -> [1..2 -> LPValues]] : k \in 1..(MaxHist + 1)} \cup {Scenario1}

LpInit ==
    /\ lp_pc = "start" /\ lp_list = <<>>
    /\ lp_out = SolverOutcome([success |-> FALSE, x |-> <<>>])
    /\ DriverIdle
    /\ SimIdle

\* lp_out = solve_lp_for_alphas(list[-1], list)
SolveCall ==
    /\ lp_pc = "start"
    /\ \E list \in Histories :
          /\ lp_list' = list
          /\ lp_out' \in solve_lp_for_alphas(Last(list), list)
    /\ lp_pc' = "solved"
    /\ UNCHANGED <<driverVars, simVars>>

LpNext == SolveCall

SpecLP == LpInit /\ [][LpNext]_vars

----------------------------------------------------------------------------
\* Properties of the driver (Spec, FairSpec).

InBox(a) == \A j \in 1..Len(a) : 0 <= a[j] /\ a[j] <= AlphaOne

\* the value history as it stood after k iterations
HistoryAfter(k) ==
    SubSeq(value_functions, Len(value_functions) - k, Len(value_functions))

\* the alphas the solver can return for a history
AlphasFor(vf) ==
    {out.x : out \in {o \in solve_lp_for_alphas(Last(vf), vf) : o.success}}

\* two consecutive iterations before the 5th whose alphas had to be equal
EarlyClosePair ==
    \E k \in 2..4 :
        /\ AlphasFor(HistoryAfter(k)) = AlphasFor(HistoryAfter(k - 1))
        /\ Cardinality(AlphasFor(HistoryAfter(k))) = 1

\* C1: an iteration whose LP succeeds ends the run as converged exactly when it
\* is the 1-indexed iteration k >= 5 and max|alpha_candidate - alpha_previous|
\* < 0.1; so the run stops at the first such k, never at k < 5, and never with
\* max_iter < 5.
C1_ConvergesAtFirstEligible ==
    /\ [][(pc = "iterating" /\ iters' = iters + 1 /\ pc' \in {"iterating", "converged"})
            => LET cand == IF pc' = "converged" THEN returned'.alpha ELSE alpha'
               IN  (pc' = "converged")
                      <=> (iters' >= 5 /\ 10 * MaxAbsDiff(cand, alpha) < AlphaOne)]_vars
    /\ [](pc = "converged" => iters >= 5 /\ max_iter >= 5)

\* a run that passed a close pair before iteration 5, did not converge at
\* iteration 5 and converged at iteration 6
C1_Witness == pc = "converged" /\ iters = 6 /\ EarlyClosePair

\* C2: the last element of the Value History is always the expert estimate
\* computed at initialization; the history has iters + 1 elements, every
\* iteration prepends one estimate to the unchanged previous history, and every
\* solver call receives a history ending in the expert estimate.
C2_ExpertStaysLast ==
    /\ [](/\ Last(value_functions) = value_pi_star
          /\ Len(value_functions) = iters + 1
          /\ (solver_arg # <<>> => Last(solver_arg) = value_pi_star))
    /\ [][/\ value_pi_star' = value_pi_star
          /\ (iters' = iters + 1 => /\ Tail(value_functions') = value_functions
                                    /\ solver_arg' = value_functions')
          /\ (iters' = iters => value_functions' = value_functions)]_vars

\* a solver call on a history of three whose newest estimate is not the expert's
C2_Witness ==
    /\ iters = 2
    /\ solver_arg = value_functions
    /\ value_functions[1] # value_pi_star
    /\ value_functions[2] # value_pi_star

\* C3: a run executes at most max_iter iterations and ends; it ends failed only
\* when the LP failed, so a run whose LP never fails ends converged or
\* exhausted; exhausted is a normal return of the current alpha and the
\* accumulated history (for max_iter = 0 the zero vector and the history
\* holding only the expert estimate).
C3_TerminatesWithinMaxIter ==
    /\ [](iters <= max_iter)
    /\ [](pc = "exhausted" =>
            /\ iters = max_iter
            /\ returned = Return(alpha, value_functions)
            /\ (max_iter = 0 => /\ returned.alpha = Zeros(NBasis)
                                /\ returned.value_functions = <<value_pi_star>>))
    /\ [](pc = "failed" => ~lp_success)
    /\ <>(pc \in {"converged", "exhausted", "failed"})

\* a run that could have converged and ended exhausted instead
C3_Witness ==
    /\ pc = "exhausted"
    /\ max_iter >= 5
    /\ returned.kind = "return"
    /\ Len(returned.value_functions) = max_iter + 1

\* C4: once the LP backend reports failure the run has failed in that same
\* iteration with the solver's error: no alpha is returned, and no further step
\* is taken.
C4_FailureIsHard ==
    /\ [](~lp_success => pc = "failed" /\ returned = Raise)
    /\ [][lp_success /\ ~lp_success' => iters' = iters + 1 /\ alpha' = alpha]_vars
    /\ [][pc # "failed"]_vars

\* a failure in a late iteration, with an alpha of an earlier iteration at hand
C4_Witness == pc = "failed" /\ iters >= 3 /\ alpha # Zeros(NBasis) /\ ~lp_success

\* C5: every alpha the driver holds or returns lies in the unit hypercube.
C5_AlphaInUnitBox ==
    /\ InBox(alpha)
    /\ Len(alpha) = NBasis
    /\ (returned.kind = "return" => InBox(returned.alpha) /\ Len(returned.alpha) = NBasis)

\* a solver result with one weight at the upper and one at the lower bound
C5_Witness ==
    /\ iters >= 1
    /\ \E j \in 1..NBasis : alpha[j] = AlphaOne
    /\ \E j \in 1..NBasis : alpha[j] = 0

\* C10: a returned alpha (max_iter >= 1) is a solver result for exactly the
\* returned Value History, which is the full history of the run.
C10_AlphaMatchesHistory ==
    (returned.kind = "return" /\ max_iter >= 1) =>
        /\ returned.value_functions = value_functions
        /\ returned.value_functions = solver_arg
        /\ returned.alpha \in AlphasFor(returned.value_functions)

\* a converged run whose returned alpha is not the alpha of the iteration before
C10_Witness ==
    /\ pc = "converged"
    /\ returned.alpha # alpha
    /\ returned.alpha \in AlphasFor(value_functions)
    /\ alpha \notin AlphasFor(value_functions)

----------------------------------------------------------------------------
\* Properties of the solver (SpecLP).

\* component i of the sum over every candidate V_j of (V* - V_j)
MarginSum(list, i) ==
    (Len(list) - 1) * Last(list)[i] - SeqSum([k \in 1..(Len(list) - 1) |-> list[k][i]])

\* the corners of the unit box of dimension n
Corners(n) == [1..n -> {0, AlphaOne}]

\* C6: the alpha returned for a history ending in the expert estimate maximises
\* d . alpha over the unit box, d the sum over the candidates of (V* - V_j):
\* alpha_i = 1 where d_i > 0, alpha_i = 0 where d_i < 0, some value of [0, 1]
\* where d_i = 0; expert [3, 2, 1] with candidate [1, 1, 1] gives [1, 1, a2].
C6_SaturatesByMarginSign ==
    (lp_pc = "solved" /\ ~lp_out.raised) =>
        LET x == lp_out.x
            n == Len(Last(lp_list))
        IN  /\ Len(x) = n
            /\ \A i \in 1..n :
                  /\ MarginSum(lp_list, i) > 0 => x[i] = AlphaOne
                  /\ MarginSum(lp_list, i) < 0 => x[i] = 0
                  /\ 0 <= x[i] /\ x[i] <= AlphaOne
            /\ \A y \in Corners(n) :
                  SeqSum([i \in 1..n |-> MarginSum(lp_list, i) * y[i]])
                      <= SeqSum([i \in 1..n |-> MarginSum(lp_list, i) * x[i]])
            /\ (lp_list = Scenario1 =>
                  x[1] = AlphaOne /\ x[2] = AlphaOne /\ x[3] \in 0..AlphaOne)

\* the scenario solved, its free weight strictly inside (0, 1)
C6_Witness ==
    /\ lp_pc = "solved"
    /\ lp_list = Scenario1
    /\ lp_out.x = <<AlphaOne, AlphaOne, 1>>

----------------------------------------------------------------------------
\* Properties of the simulator and the estimator (SpecSim).

InInterval(x) == -One <= x /\ x <= One

\* C7: step returns exactly 1 when policy(s)*s + noise is above 1, exactly -1
\* when it is below -1 and the raw value otherwise, whatever the policy's
\* output; every state of every trajectory of monte_carlo_sim lies in [-1, 1].
C7_StatesStayClamped ==
    /\ sim_pc = "stepped" =>
          /\ InInterval(s_next)
          /\ raw > One => s_next = One
          /\ raw < -One => s_next = -One
          /\ InInterval(raw) => s_next = raw
    /\ sim_pc \in {"simulated", "estimated"} =>
          \A k \in 1..Len(trajectories) :
              \A t \in 1..Len(trajectories[k]) : InInterval(trajectories[k][t])

\* a step whose raw value is far below -1, under a policy of large output
C7_Witness ==
    /\ sim_pc = "stepped"
    /\ policy = ConstPolicy(5)
    /\ raw < -(4 * One)
    /\ s_next = -One

\* C8 as stated: monte_carlo_sim returns n_trajectories trajectories of exactly
\* trajectory_length states each, the first state in [-1, 1] and every later
\* state one step from the state before it.
C8_ExactLength ==
    sim_pc = "simulated" =>
        /\ Len(trajectories) = n_trajectories
        /\ \A k \in 1..Len(trajectories) :
              /\ Len(trajectories[k]) = trajectory_length
              /\ InInterval(trajectories[k][1])
              /\ \A t \in 2..Len(trajectories[k]) :
                    trajectories[k][t] \in step(trajectories[k][t - 1], policy)

\* C9: the estimate of an empty batch is the zero vector of length n_basis,
\* for every discount and n_basis.
C9_EmptyBatchGivesZeros ==
    (sim_pc = "estimated" /\ trajectories = <<>>) =>
        /\ Len(values) = n_basis
        /\ \A j \in 1..n_basis : values[j] = 0

\* an estimate of an empty batch over three basis functions
C9_Witness ==
    /\ sim_pc = "estimated"
    /\ trajectories = <<>>
    /\ n_trajectories = 0
    /\ n_basis = 3
    /\ discount = 9
    /\ values = <<0, 0, 0>>

====
